---- MODULE Spec2Model ----
(***************************************************************************)
(* Model of src/index.js: the SoSoValue research-article notifier.         *)
(*                                                                         *)
(* The file holds two revisions of the same script: lines 1-138 (the       *)
(* first revision: sendTelegram swallows a failed post, scrapeArticles     *)
(* closes its browser in a finally block) and lines 145-277 (the second    *)
(* revision: sendTelegram lets a failed post throw, scrapeArticles closes  *)
(* its browser only on the normal path).  The variable rev says which of   *)
(* the two is running; Spec runs the first revision, SpecRevs either.      *)
(*                                                                         *)
(* Strings are sequences of tokens: an article id (a run of >= 18 digits)  *)
(* is one positive number, a whitespace character is WS.  An article       *)
(* record is [id |-> n]; its title and url take no part in control flow    *)
(* (the url is a function of the id, line 89).                             *)
(***************************************************************************)
EXTENDS Integers, Sequences, FiniteSets, TLC

\* ------------------------------------------------------------------ bounds
MaxId    == 3      \* article ids on the short pages are 1..MaxId
MaxTicks == 2      \* cron firings modelled
MaxBatch == 61     \* records scraped when sendTodayBatch is run on its own
MaxRows  == 2      \* list items on the page when the extraction is run on its own
MaxCount == 2      \* list items the scroll loop can count
MaxObs   == 4      \* counts the scroll loop takes while the page still loads

\* --------------------------------------------------------------- constants
ChunkSize == 20    \* articles per startup message (line 100)
WS        == 0     \* a whitespace character in the cursor file
StableNeeded == 3  \* equal counts that end the scroll loop (line 59)

Ids    == 1..MaxId
Cycles == 0..MaxTicks          \* 0 is the Startup cycle, 1.. are cron ticks
Ticks  == 1..MaxTicks

Min(a, b) == IF a < b THEN a ELSE b

\* ------------------------------------------------------------ scrape input
\* What scrapeArticles can return: newest-first lists of records.  The short
\* pages are the empty page, the pages that list every article 1..hi with the
\* newest (hi) first, and the pages that list article hi alone (the older
\* ones no longer pass the recency filter of line 82).  From one scrape to
\* the next hi may grow (articles published) or shrink (the newest withdrawn).
\* LongPage has one record more than a startup chunk holds.
Window(lo, hi) == [k \in 1..(hi - lo + 1) |-> [id |-> hi + 1 - k]]

Pages        == { Window(1, hi) : hi \in 0..MaxId } \cup { Window(hi, hi) : hi \in Ids }
LongPage     == [k \in 1..(ChunkSize + 1) |-> [id |-> ChunkSize + 2 - k]]
StartupPages == Pages \cup {LongPage}

\* ------------------------------------------------------------ cursor store
\* String.prototype.trim on the file's content (line 29).
RECURSIVE TrimStart(_)
TrimStart(s) == IF s # << >> /\ Head(s) = WS THEN TrimStart(Tail(s)) ELSE s
RECURSIVE TrimEnd(_)
TrimEnd(s) ==
    IF s # << >> /\ s[Len(s)] = WS THEN TrimEnd(SubSeq(s, 1, Len(s) - 1)) ELSE s
trim(s) == TrimEnd(TrimStart(s))

NoFile == [exists |-> FALSE, content |-> << >>]

getLastId(f)   == IF f.exists THEN trim(f.content) ELSE << >>
saveLastId(id) == [exists |-> TRUE, content |-> << id >>]

\* The cursor file a run can find: none, or an id left by an earlier run,
\* here with a trailing newline.
InitFiles == {NoFile, [exists |-> TRUE, content |-> << 1, WS >>]}

\* ----------------------------------------------------------------- notifier
\* sendTelegram: does a failed post escape as an exception?  Revision 1
\* catches and logs it (lines 18-26), revision 2 has no try (lines 158-163).
sendTelegramThrows(r, ok) == r = 2 /\ ~ok

\* (mutant) slice with its end index taken one too low.
slice_shortEnd(s, a, b) == SubSeq(s, a + 1, Min(b - 1, Len(s)))

\* Array.prototype.slice(a, b) with 0-based, end-exclusive indices.
slice(s, a, b) == SubSeq(s, a + 1, Min(b, Len(s)))

\* (mutant) batchMsg numbering the entries of every message from 1 (j + 1
\* for i + j + 1).
batchMsg_localNumbers(articles, i) ==
    LET chunk == slice(articles, i, i + ChunkSize) IN
    [kind  |-> "batch", first |-> i + 1, last |-> i + Len(chunk),
     items |-> [j \in 1..Len(chunk) |-> [n |-> j, id |-> chunk[j].id]]]

\* The startup message for the chunk that starts at 0-based index i (lines
\* 101-104): header numbers i+1 and i+chunk.length, entries numbered i+j+1.
batchMsg(articles, i) ==
    LET chunk == slice(articles, i, i + ChunkSize) IN
    [kind  |-> "batch", first |-> i + 1, last |-> i + Len(chunk),
     items |-> [j \in 1..Len(chunk) |-> [n |-> i + j, id |-> chunk[j].id]]]

\* The polling message for one record (line 120).
latestMsg(newest) ==
    [kind |-> "latest", first |-> 0, last |-> 0,
     items |-> << [n |-> 0, id |-> newest.id] >>]

\* The for loop of lines 100-108: one message per chunk, in page order.
RECURSIVE batchLoop(_, _)
batchLoop(articles, i) ==
    IF i < Len(articles)
    THEN << batchMsg(articles, i) >> \o batchLoop(articles, i + ChunkSize)
    ELSE << >>

Nothing == [msgs |-> << >>, save |-> << >>]

\* (mutant) sendTodayBatch without the early return of line 98 and with the
\* loop test i <= articles.length: an empty scrape yields one empty message.
RECURSIVE batchLoop_le(_, _)
batchLoop_le(articles, i) ==
    IF i <= Len(articles)
    THEN << batchMsg(articles, i) >> \o batchLoop_le(articles, i + ChunkSize)
    ELSE << >>
sendTodayBatch_noReturn(articles) ==
    [msgs |-> batchLoop_le(articles, 0),
     save |-> IF Len(articles) = 0 THEN << >> ELSE << articles[1].id >>]

\* (mutant) sendTodayBatch saving the id of the last record of the scrape.
sendTodayBatch_saveOldest(articles) ==
    IF Len(articles) = 0 THEN Nothing
    ELSE [msgs |-> batchLoop(articles, 0), save |-> << articles[Len(articles)].id >>]

\* sendTodayBatch after its scrape (lines 98-109): the messages it sends, in
\* order, and the id it then saves (<< >>: it returns without saving).
sendTodayBatch(articles) ==
    IF Len(articles) = 0 THEN Nothing
    ELSE [msgs |-> batchLoop(articles, 0), save |-> << articles[1].id >>]

\* (mutant) checkAndSendLatest taking the last record of the scrape for the
\* newest.
checkAndSendLatest_last(articles, lastId) ==
    IF Len(articles) = 0 THEN Nothing
    ELSE LET newest == articles[Len(articles)] IN
         IF << newest.id >> = lastId THEN Nothing
         ELSE [msgs |-> << latestMsg(newest) >>, save |-> << newest.id >>]

\* (mutant) checkAndSendLatest without the comparison of line 118.
checkAndSendLatest_always(articles, lastId) ==
    IF Len(articles) = 0 THEN Nothing
    ELSE [msgs |-> << latestMsg(articles[1]) >>, save |-> << articles[1].id >>]

\* (mutant) checkAndSendLatest saving the newest id before the comparison of
\* line 118, so also when there is nothing to send.
checkAndSendLatest_saveFirst(articles, lastId) ==
    IF Len(articles) = 0 THEN Nothing
    ELSE LET newest == articles[1] IN
         IF << newest.id >> = lastId THEN [msgs |-> << >>, save |-> << newest.id >>]
         ELSE [msgs |-> << latestMsg(newest) >>, save |-> << newest.id >>]

\* (mutant) checkAndSendLatest returning early when no cursor is stored
\* (!lastId || newest.id === lastId).
checkAndSendLatest_needsCursor(articles, lastId) ==
    IF Len(articles) = 0 THEN Nothing
    ELSE LET newest == articles[1] IN
         IF lastId = << >> \/ << newest.id >> = lastId THEN Nothing
         ELSE [msgs |-> << latestMsg(newest) >>, save |-> << newest.id >>]

\* (mutant) checkAndSendLatest under the prefix policy: one message for every
\* record in front of the cursor, oldest first.
RECURSIVE newerThan(_, _)
newerThan(articles, lastId) ==
    IF articles = << >> \/ << Head(articles).id >> = lastId THEN << >>
    ELSE newerThan(Tail(articles), lastId) \o << latestMsg(Head(articles)) >>
checkAndSendLatest_prefix(articles, lastId) ==
    IF Len(articles) = 0 THEN Nothing
    ELSE LET newest == articles[1] IN
         IF << newest.id >> = lastId THEN Nothing
         ELSE [msgs |-> newerThan(articles, lastId), save |-> << newest.id >>]

\* checkAndSendLatest after its scrape (lines 114-122), lastId being what
\* getLastId returned at line 117.
checkAndSendLatest(articles, lastId) ==
    IF Len(articles) = 0 THEN Nothing
    ELSE LET newest == articles[1] IN
         IF << newest.id >> = lastId THEN Nothing
         ELSE [msgs |-> << latestMsg(newest) >>, save |-> << newest.id >>]

\* -------------------------------------------------------------------- state
VARIABLES
    rev,       \* 1 or 2: the revision running
    file,      \* last_article_id.txt
    sent,      \* per cycle, its sendTelegram calls that have ended: [msg, ok]
    cyc,       \* per cycle: where it is and what it has seen and done
    main,      \* the script: "load" (lines 1-15), "exited" (process.exit), then
               \* the IIFE: "start", "startup", "polling" (cron registered), "crashed"
    fired,     \* cron firings so far
    browsers,  \* browsers open (launched and not closed)
    env,       \* process.env: are TELEGRAM_TOKEN and TELEGRAM_CHAT_ID set?
    exitStatus, \* << >> while the process runs, << n >> after process.exit(n)
    job,       \* the input of a function run on its own (SpecBatch, SpecExtract,
               \* SpecScroll)
    res        \* what that function has computed so far

vars == << rev, file, sent, cyc, main, fired, browsers, env, exitStatus, job, res >>

\* No function is run on its own.
NoJob == [kind |-> "none"]
\* What the scheduler's actions leave alone.
rest == << env, exitStatus, job, res >>

\* A cycle: pc is "idle", "launching" (awaiting puppeteer.launch), "scraping"
\* (browser open), "sending" (awaiting sendTelegram), "pausing" (Startup
\* awaiting the 1 s timer of line 107), "done" (returned) or "failed" (ended
\* by an exception).  articles is the scrape's result, lastId
\* what getLastId returned, todo the messages still to send, save the id to
\* save after the last of them, saved the ids this cycle has saved.
IdleCycle ==
    [pc |-> "idle", articles |-> << >>, lastId |-> << >>,
     todo |-> << >>, save |-> << >>, saved |-> << >>]

\* The environments a run can start in.
Envs == [token : BOOLEAN, chat : BOOLEAN]

\* Lines 8-15: is a credential missing?  Revision 1 reads both from the
\* environment and tests them (line 12); revision 2 sets both from literals
\* (lines 150-153) and tests nothing.
configMissing(r, e) == r = 1 /\ (~e.token \/ ~e.chat)

InitCommon ==
    /\ file \in InitFiles
    /\ sent = [c \in Cycles |-> << >>]
    /\ cyc = [c \in Cycles |-> IdleCycle]
    /\ main = "load"
    /\ fired = 0
    /\ browsers = 0
    /\ env \in Envs
    /\ exitStatus = << >>
    /\ job = NoJob
    /\ res = NoJob

Init     == rev = 1 /\ InitCommon
InitRevs == rev \in {1, 2} /\ InitCommon

\* An exception leaves cycle c.  In a tick it is caught and logged (lines
\* 132-136); in Startup nothing catches it: the IIFE's promise rejects, line
\* 130 is never reached and no cron task exists.  What the cycle had still to
\* send is never sent.
Throw(c) ==
    /\ cyc' = [cyc EXCEPT ![c].pc = "failed", ![c].todo = << >>]
    /\ main' = IF c = 0 THEN "crashed" ELSE main

\* The cycle goes on after its scrape with the work `plan`: it awaits the
\* first sendTelegram call or, with nothing to send, returns at once (saving
\* first what the plan says to save).  Startup's return lets the IIFE register
\* the cron task (line 130).
Proceed(c, articles, lastId, plan) ==
    LET ends == plan.msgs = << >> IN
    /\ cyc' = [cyc EXCEPT ![c].articles = articles,
                          ![c].lastId   = lastId,
                          ![c].todo     = plan.msgs,
                          ![c].save     = plan.save,
                          ![c].saved    = IF ends THEN plan.save ELSE << >>,
                          ![c].pc       = IF ends THEN "done" ELSE "sending"]
    /\ file' = IF ends /\ plan.save # << >> THEN saveLastId(plan.save[1]) ELSE file
    /\ main' = IF c = 0 /\ ends THEN "polling" ELSE main

\* ------------------------------------------------------------------ actions
\* Lines 1-15: the module loads; with a credential missing it logs and calls
\* process.exit(1) before the IIFE of line 125 is reached.
ConfigCheck ==
    /\ main = "load"
    /\ main' = IF configMissing(rev, env) THEN "exited" ELSE "start"
    /\ exitStatus' = IF configMissing(rev, env) THEN << 1 >> ELSE << >>
    /\ UNCHANGED << rev, file, sent, cyc, fired, browsers, env, job, res >>

\* Line 127: the IIFE calls sendTodayBatch, which calls scrapeArticles.
StartupBegin ==
    /\ main = "start"
    /\ main' = "startup"
    /\ cyc' = [cyc EXCEPT ![0].pc = "launching"]
    /\ UNCHANGED << rev, file, sent, fired, browsers >>
    /\ UNCHANGED rest

\* Lines 130-137: the cron task fires and calls checkAndSendLatest.  Nothing
\* in the handler looks at whether an earlier tick is still running.
CronFire ==
    /\ main = "polling"
    /\ fired < MaxTicks
    /\ fired' = fired + 1
    /\ cyc' = [cyc EXCEPT ![fired + 1].pc = "launching"]
    /\ UNCHANGED << rev, file, sent, main, browsers >>
    /\ UNCHANGED rest

\* Line 35: puppeteer.launch resolves.
LaunchOk(c) ==
    /\ cyc[c].pc = "launching"
    /\ cyc' = [cyc EXCEPT ![c].pc = "scraping"]
    /\ browsers' = browsers + 1
    /\ UNCHANGED << rev, file, sent, main, fired >>
    /\ UNCHANGED rest

\* Line 35: puppeteer.launch rejects; no browser was opened.
LaunchFail(c) ==
    /\ cyc[c].pc = "launching"
    /\ Throw(c)
    /\ UNCHANGED << rev, file, sent, fired, browsers >>
    /\ UNCHANGED rest

\* Lines 48-90 throw (newPage, goto, the scroll loop, the extraction).  The
\* finally of revision 1 closes the browser; revision 2 never reaches its
\* browser.close() (line 218).
ScrapeThrow(c) ==
    /\ cyc[c].pc = "scraping"
    /\ browsers' = IF rev = 1 THEN browsers - 1 ELSE browsers
    /\ Throw(c)
    /\ UNCHANGED << rev, file, sent, fired >>
    /\ UNCHANGED rest

\* Startup's scrape returns `articles` (line 97); lines 98-104 run up to the
\* first await of sendTelegram.
StartupScraped(articles) ==
    /\ cyc[0].pc = "scraping"
    /\ browsers' = browsers - 1
    /\ Proceed(0, articles, << >>, sendTodayBatch(articles))
    /\ UNCHANGED << rev, sent, fired >>
    /\ UNCHANGED rest

\* A tick's scrape returns `articles` (line 113); lines 114-120 run up to the
\* await of sendTelegram, reading the cursor at line 117.
TickScraped(c, articles) ==
    /\ c \in Ticks
    /\ cyc[c].pc = "scraping"
    /\ browsers' = browsers - 1
    /\ LET lastId == IF Len(articles) = 0 THEN << >> ELSE getLastId(file) IN
       Proceed(c, articles, lastId, checkAndSendLatest(articles, lastId))
    /\ UNCHANGED << rev, sent, fired >>
    /\ UNCHANGED rest

\* The pending sendTelegram call of cycle c ends, delivered (ok) or not.  If
\* it throws, the cycle ends there.  Otherwise Startup logs and starts the
\* 1 s timer of line 107, after every message, the last one included; a tick
\* goes on to its next message or, after the last one, to saveLastId (line
\* 122) and returns.
Sent(c, ok) ==
    /\ cyc[c].pc = "sending"
    /\ sent' = [sent EXCEPT ![c] = Append(@, [msg |-> Head(cyc[c].todo), ok |-> ok])]
    /\ IF sendTelegramThrows(rev, ok)
       THEN /\ Throw(c)
            /\ file' = file
       ELSE IF c = 0
       THEN /\ cyc' = [cyc EXCEPT ![c].todo = Tail(@), ![c].pc = "pausing"]
            /\ UNCHANGED << file, main >>
       ELSE IF Len(cyc[c].todo) > 1
       THEN /\ cyc' = [cyc EXCEPT ![c].todo = Tail(@)]
            /\ UNCHANGED << file, main >>
       ELSE /\ cyc' = [cyc EXCEPT ![c].todo = << >>, ![c].pc = "done",
                                  ![c].saved = @ \o cyc[c].save]
            /\ file' = IF cyc[c].save = << >> THEN file
                       ELSE saveLastId(cyc[c].save[1])
            /\ main' = main
    /\ UNCHANGED << rev, fired, browsers >>
    /\ UNCHANGED rest

\* The timer of line 107 fires in Startup.  With a chunk left the loop calls
\* sendTelegram for it (line 105); after the last chunk Startup saves the
\* cursor (line 109) and returns, and the IIFE registers the cron task (line
\* 130).
PauseEnds ==
    /\ cyc[0].pc = "pausing"
    /\ IF cyc[0].todo # << >>
       THEN /\ cyc' = [cyc EXCEPT ![0].pc = "sending"]
            /\ UNCHANGED << file, main >>
       ELSE /\ cyc' = [cyc EXCEPT ![0].pc = "done", ![0].saved = @ \o cyc[0].save]
            /\ file' = IF cyc[0].save = << >> THEN file
                       ELSE saveLastId(cyc[0].save[1])
            /\ main' = "polling"
    /\ UNCHANGED << rev, sent, fired, browsers >>
    /\ UNCHANGED rest

Next ==
    \/ ConfigCheck
    \/ StartupBegin
    \/ CronFire
    \/ \E c \in Cycles : LaunchOk(c)
    \/ \E c \in Cycles : LaunchFail(c)
    \/ \E c \in Cycles : ScrapeThrow(c)
    \/ \E a \in StartupPages : StartupScraped(a)
    \/ \E c \in Ticks, a \in Pages : TickScraped(c, a)
    \/ \E c \in Cycles, ok \in BOOLEAN : Sent(c, ok)
    \/ PauseEnds

Spec     == Init /\ [][Next]_vars
SpecRevs == InitRevs /\ [][Next]_vars

\* ------------------------------------------------- functions on their own
\* The scheduler does not run: its variables stay as they are.
Parked ==
    /\ rev = 1
    /\ file = NoFile
    /\ sent = [c \in Cycles |-> << >>]
    /\ cyc = [c \in Cycles |-> IdleCycle]
    /\ main = "none"
    /\ fired = 0
    /\ browsers = 0
    /\ env = [token |-> TRUE, chat |-> TRUE]
    /\ exitStatus = << >>
scheduler == << rev, file, sent, cyc, main, fired, browsers, env, exitStatus >>

\* sendTodayBatch on a scrape of n records, n = 0..MaxBatch.
InitBatch ==
    /\ Parked
    /\ job \in { [kind |-> "batch", articles |-> Window(1, n)] : n \in 0..MaxBatch }
    /\ res = NoJob

\* Lines 98-109 on job.articles: the messages, in order, and the id saved.
RunBatch ==
    /\ job.kind = "batch" /\ res = NoJob
    /\ res' = [kind |-> "batch", plan |-> sendTodayBatch(job.articles)]
    /\ UNCHANGED << scheduler, job >>

SpecBatch == InitBatch /\ [][RunBatch]_vars

\* The extraction of lines 72-90.  A list item li is what the page function
\* reads of it: bold is << >> when it has no div.font-bold and << text >>
\* otherwise (text a string of WS and letters, any number # WS being a
\* letter); link is << >> when it has no a[href^="/tc/news/"], << 0 >> when
\* that link's href holds no run of 18 digits and << n >> when it holds the id
\* n; when is what the match of line 75 gave, a string of the tokens "ago"
\* (the marker of a relative label), "min", "M" (month), "D" (day) and digits.
\* An optional value is << >> (undefined) or << v >>.
Relative  == << "5", "min", "ago" >>
Feb1      == << "2", "M", "1", "D" >>
Dec1      == << "1", "2", "M", "1", "D" >>
Mar1      == << "3", "M", "1", "D" >>
Labels    == { << >>, Relative, Feb1, Dec1, Mar1 }
Todays    == { Feb1, Dec1 }
Bolds     == { << >>, << << WS >> >>, << << WS, 1 >> >> }
LinkKinds == { "none", "short", "id" }
LiKinds   == [bold : Bolds, link : LinkKinds, when : Labels]

\* The page whose k-th item is of kind kinds[k]; an item that links to an
\* article links to article k.
PageOf(kinds) ==
    [k \in 1..Len(kinds) |->
        [bold |-> kinds[k].bold,
         link |-> IF kinds[k].link = "id" THEN << k >>
                  ELSE IF kinds[k].link = "short" THEN << 0 >> ELSE << >>,
         when |-> kinds[k].when]]
DomPages(n) == { PageOf(kinds) : kinds \in [1..n -> LiKinds] }

\* String.prototype.includes.
includes(s, t) ==
    \E k \in 0..(Len(s) - Len(t)) : SubSeq(s, k + 1, k + Len(t)) = t

\* Lines 75-80: the row read of one list item.  title is optional (line 77:
\* ?.innerText.trim()), id is a string, '' when nothing matched (line 79).
rowOf(li) ==
    [title |-> IF li.bold = << >> THEN << >> ELSE << trim(li.bold[1]) >>,
     id    |-> IF li.link = << >> \/ li.link = << 0 >> THEN << >> ELSE li.link,
     when  |-> li.when]

\* (mutant) the filter without its test of x.id.
keep_noId(x, today) ==
    /\ x.title # << >> /\ x.title[1] # << >>
    /\ (includes(x.when, << "ago" >>) \/ includes(x.when, today))

\* Lines 81-83: x.title && x.id && (x.when.includes('前') ||
\* x.when.includes(today)).
keep(x, today) ==
    /\ x.title # << >> /\ x.title[1] # << >>
    /\ x.id # << >>
    /\ (includes(x.when, << "ago" >>) \/ includes(x.when, today))

\* Lines 72-90: map, filter, map.  A record is its id and its title.
extract(items, today) ==
    LET rows == [k \in 1..Len(items) |-> rowOf(items[k])]
        kept == SelectSeq(rows, LAMBDA x : keep(x, today))
    IN  [k \in 1..Len(kept) |->
            [id |-> IF kept[k].id = << >> THEN 0 ELSE kept[k].id[1],
             title |-> kept[k].title]]

InitExtract ==
    /\ Parked
    /\ \E n \in 0..MaxRows :
           job \in { [kind |-> "extract", items |-> d, today |-> t] :
                       d \in DomPages(n), t \in Todays }
    /\ res = NoJob

RunExtract ==
    /\ job.kind = "extract" /\ res = NoJob
    /\ res' = [kind |-> "extract", out |-> extract(job.items, job.today)]
    /\ UNCHANGED << scheduler, job >>

SpecExtract == InitExtract /\ [][RunExtract]_vars

\* The scroll loop of lines 58-66 (second revision: lines 188-196).  The page
\* loads more items as it is scrolled until it has settled at some count;
\* job.settled is << >> before that and << count >> after.
\* (mutant) the loop body without the reset of stable.
scrollStep_noReset(st, cur) ==
    IF cur = st.prev
    THEN [st EXCEPT !.stable = @ + 1, !.obs = Append(@, cur)]
    ELSE [st EXCEPT !.prev = cur, !.obs = Append(@, cur)]

\* Line 65 after the count cur of lines 62-64; obs keeps the counts taken.
scrollStep(st, cur) ==
    IF cur = st.prev
    THEN [st EXCEPT !.stable = @ + 1, !.obs = Append(@, cur)]
    ELSE [st EXCEPT !.prev = cur, !.stable = 0, !.obs = Append(@, cur)]

\* Line 59: the loop test.
scrolling(st) == st.stable < StableNeeded

InitScroll ==
    /\ Parked
    /\ job = [kind |-> "scroll", settled |-> << >>]
    /\ res = [kind |-> "scroll", prev |-> 0, stable |-> 0, obs |-> << >>]

\* The page stops loading, with `count` items.
Settle(count) ==
    /\ job.kind = "scroll" /\ job.settled = << >>
    /\ job' = [job EXCEPT !.settled = << count >>]
    /\ UNCHANGED << scheduler, res >>

\* One turn of the loop (lines 59-65): scroll, wait, count, compare.
Observe(cur) ==
    /\ job.kind = "scroll" /\ scrolling(res)
    /\ IF job.settled = << >> THEN Len(res.obs) < MaxObs ELSE cur = job.settled[1]
    /\ res' = scrollStep(res, cur)
    /\ UNCHANGED << scheduler, job >>

NextScroll ==
    \/ \E count \in 0..MaxCount : Settle(count)
    \/ \E cur \in 0..MaxCount : Observe(cur)

\* The loop keeps turning while its test holds: each await of lines 60-64
\* resolves.
SpecScroll ==
    InitScroll /\ [][NextScroll]_vars /\ WF_vars(\E cur \in 0..MaxCount : Observe(cur))

\* ------------------------------------------------------------------ history
\* The article ids a message lists, in order.
MsgIds(m) == [j \in 1..Len(m.items) |-> m.items[j].id]
\* The ids of a list of records.
IdsOf(articles) == [j \in 1..Len(articles) |-> articles[j].id]
\* The ids listed by the ended sends of a log, message after message.
RECURSIVE ListedIds(_)
ListedIds(log) ==
    IF log = << >> THEN << >> ELSE MsgIds(Head(log).msg) \o ListedIds(Tail(log))
\* Cycle c has started and not yet ended.
Running(c) == cyc[c].pc \in {"launching", "scraping", "sending", "pausing"}
\* The ended sends, as (cycle, position) pairs.
Sends == UNION { { << c, j >> : j \in 1..Len(sent[c]) } : c \in Cycles }
\* Tick c has returned from a non-empty scrape whose k-th record is the cursor
\* it read.
CursorAt(c, k) ==
    /\ cyc[c].pc = "done"
    /\ k \in 1..Len(cyc[c].articles)
    /\ cyc[c].lastId = << cyc[c].articles[k].id >>

\* ------------------------------------------------------------------- claims

\* C1 as stated (prefix policy): a tick whose cursor is the id of the k-th
\* scraped record sends k-1 messages, for r(k-1), ..., r1 in that order, and
\* saves the id of r1.
C1_PrefixDelivered ==
    \A c \in Ticks : \A k \in 1..Len(cyc[c].articles) :
        CursorAt(c, k) =>
            /\ Len(sent[c]) = k - 1
            /\ \A j \in 1..Len(sent[c]) :
                   MsgIds(sent[c][j].msg) = << cyc[c].articles[k - j].id >>
            /\ (k > 1 => cyc[c].saved = << cyc[c].articles[1].id >>)

\* C1 amended (single-latest policy): a tick whose cursor is the id of the
\* k-th scraped record sends nothing and saves nothing when k = 1; when
\* k >= 2 it sends exactly one message, for r1 alone, and having returned
\* from that send has saved the id of r1.
C1_LatestOnly ==
    \A c \in Ticks : \A k \in 1..Len(cyc[c].articles) :
        CursorAt(c, k) =>
            IF k = 1
            THEN sent[c] = << >> /\ cyc[c].saved = << >>
            ELSE /\ Len(sent[c]) = 1
                 /\ MsgIds(sent[c][1].msg) = << cyc[c].articles[1].id >>
                 /\ sent[c][1].msg.kind = "latest"
                 /\ cyc[c].saved = << cyc[c].articles[1].id >>

\* A tick has returned whose cursor was the id of the third scraped record:
\* one message sent, though two records are newer than the cursor.
C1_Witness ==
    \E c \in Ticks : CursorAt(c, 3) /\ Len(sent[c]) = 1

\* C2 as stated (exactly-once emission): no article id is listed by two
\* delivered messages of one run.
C2_ExactlyOnce ==
    \A p \in Sends, q \in Sends :
        (p # q /\ sent[p[1]][p[2]].ok /\ sent[q[1]][q[2]].ok) =>
            \A i \in 1..Len(sent[p[1]][p[2]].msg.items) :
            \A j \in 1..Len(sent[q[1]][q[2]].msg.items) :
                sent[p[1]][p[2]].msg.items[i].id # sent[q[1]][q[2]].msg.items[j].id

\* C3 as stated (cycles never overlap): at most one cycle is running.
C3_NoOverlap ==
    Cardinality({ c \in Cycles : Running(c) }) <= 1

\* C4: a cycle, Startup or tick, that has returned from an empty scrape has
\* sent no message and has not written the cursor.
C4_EmptyScrape ==
    \A c \in Cycles :
        (cyc[c].pc = "done" /\ cyc[c].articles = << >>) =>
            sent[c] = << >> /\ cyc[c].saved = << >>

\* Startup and a tick have both returned from an empty scrape and the cursor
\* file is the one the run found.
C4_Witness ==
    /\ cyc[0].pc = "done" /\ cyc[0].articles = << >>
    /\ \E c \in Ticks : cyc[c].pc = "done" /\ cyc[c].articles = << >>
    /\ file \in InitFiles /\ file.exists

\* C5: a tick that has returned from a scrape whose newest id is the cursor
\* it read has sent no message and has not written the cursor.
C5_Idempotent ==
    \A c \in Ticks :
        (/\ cyc[c].pc = "done"
         /\ cyc[c].articles # << >>
         /\ cyc[c].lastId = << cyc[c].articles[1].id >>) =>
            sent[c] = << >> /\ cyc[c].saved = << >>

\* Two ticks in succession on an unchanged page: the first sent the newest
\* article and saved its id, the second scraped the same newest id, read that
\* cursor and sent nothing.
C5_Witness ==
    \E c \in Ticks \ {1} :
        /\ cyc[c - 1].pc = "done" /\ Len(sent[c - 1]) = 1
        /\ cyc[c].pc = "done" /\ cyc[c].articles = cyc[c - 1].articles
        /\ cyc[c].lastId = cyc[c - 1].saved
        /\ cyc[c].lastId = << cyc[c].articles[1].id >>
        /\ sent[c] = << >>

\* C6: Startup with a non-empty scrape sends every scraped record, whatever
\* cursor is stored: while it sends or pauses after a send, the messages sent
\* so far list a prefix of the page, in page order (a proper prefix while a
\* send is pending), and the cursor has not been written; once it has
\* returned, they list the whole page and it has saved the id of the first
\* record.
C6_StartupBatch ==
    /\ cyc[0].pc \in {"sending", "pausing"} =>
          /\ cyc[0].saved = << >>
          /\ ListedIds(sent[0]) =
                 SubSeq(IdsOf(cyc[0].articles), 1, Len(ListedIds(sent[0])))
          /\ cyc[0].pc = "sending" => Len(ListedIds(sent[0])) < Len(cyc[0].articles)
          /\ cyc[0].pc = "pausing" => sent[0] # << >>
    /\ (cyc[0].pc = "done" /\ cyc[0].articles # << >>) =>
          /\ ListedIds(sent[0]) = IdsOf(cyc[0].articles)
          /\ \A j \in 1..Len(sent[0]) : sent[0][j].msg.kind = "batch"
          /\ cyc[0].saved = << cyc[0].articles[1].id >>
          /\ cyc[0].lastId = << >>

\* Startup found a cursor naming a record of its page and is between its first
\* and its second message.
C6_Witness ==
    /\ cyc[0].pc = "sending" /\ Len(sent[0]) = 1
    /\ \E k \in 1..Len(cyc[0].articles) :
           getLastId(file) = << cyc[0].articles[k].id >>

\* C7 as stated: once the Startup cycle has ended, however it ended, the cron
\* task is registered.
C7_StartupThenPolling ==
    cyc[0].pc \in {"done", "failed"} => main = "polling"

\* C8 as stated: a cycle ended by a scrape failure has sent nothing and saved
\* nothing, and the process keeps running (under Spec a cycle fails only by
\* its scrape).
C8_ScrapeFailureNonFatal ==
    \A c \in Cycles :
        cyc[c].pc = "failed" =>
            sent[c] = << >> /\ cyc[c].saved = << >> /\ main # "crashed"

\* C9 as stated: a failed send is not propagated (the cycle does not end by an
\* exception, the process keeps running), and the cycle, once returned, has
\* attempted every message and saved the newest scraped id.
C9_DeliveryFailureNonFatal ==
    \A c \in Cycles :
        (\E j \in 1..Len(sent[c]) : ~sent[c][j].ok) =>
            /\ cyc[c].pc # "failed"
            /\ main # "crashed"
            /\ cyc[c].pc = "done" => cyc[c].saved = << cyc[c].articles[1].id >>

\* C10 as stated: a cycle that has written the cursor has had a send
\* delivered.
C10_WriteAfterSuccess ==
    \A c \in Cycles :
        cyc[c].saved # << >> => \E j \in 1..Len(sent[c]) : sent[c][j].ok

\* C10 amended: a cycle that has written the cursor has had at least one
\* send attempted to its end, delivered or not, and has no message left to
\* send.
C10_WriteAfterAttempt ==
    \A c \in Cycles :
        cyc[c].saved # << >> => Len(sent[c]) >= 1 /\ cyc[c].todo = << >>

\* A tick has written the cursor after its only send failed.
C10_Witness ==
    \E c \in Ticks :
        cyc[c].saved # << >> /\ Len(sent[c]) = 1 /\ ~sent[c][1].ok

\* Tick c has returned from a non-empty scrape none of whose records is the
\* cursor it read (the empty cursor included).
CursorNowhere(c) ==
    /\ cyc[c].pc = "done"
    /\ cyc[c].articles # << >>
    /\ \A k \in 1..Len(cyc[c].articles) :
           cyc[c].lastId # << cyc[c].articles[k].id >>

\* C11 as stated (prefix policy): a tick whose cursor names no scraped record
\* sends one message per scraped record, oldest first, and saves the newest
\* id.
C11_WholePageDelivered ==
    \A c \in Ticks :
        CursorNowhere(c) =>
            /\ ListedIds(sent[c]) =
                   [j \in 1..Len(cyc[c].articles) |->
                       cyc[c].articles[Len(cyc[c].articles) + 1 - j].id]
            /\ Len(sent[c]) = Len(cyc[c].articles)
            /\ cyc[c].saved = << cyc[c].articles[1].id >>

\* C11 amended (single-latest policy): a tick whose cursor names no scraped
\* record sends exactly one message, for the newest record alone, and having
\* returned from that send has saved the newest id.
C11_NewestOnlyDelivered ==
    \A c \in Ticks :
        CursorNowhere(c) =>
            /\ Len(sent[c]) = 1
            /\ MsgIds(sent[c][1].msg) = << cyc[c].articles[1].id >>
            /\ cyc[c].saved = << cyc[c].articles[1].id >>

\* A tick that read no cursor at all has returned from a scrape of several
\* records, having sent one message.
C11_Witness ==
    \E c \in Ticks :
        /\ CursorNowhere(c) /\ cyc[c].lastId = << >>
        /\ Len(cyc[c].articles) >= 2 /\ Len(sent[c]) = 1

\* C12: a tick sends at most one message and writes the cursor at most once;
\* a message it sends or is about to send is for the newest scraped record;
\* once returned from a non-empty scrape it has sent nothing if the newest id
\* was the cursor it read, and exactly one message otherwise.
C12_SingleLatest ==
    \A c \in Ticks :
        /\ Len(sent[c]) + Len(cyc[c].todo) <= 1
        /\ Len(cyc[c].saved) <= 1
        /\ \A j \in 1..Len(sent[c]) :
               MsgIds(sent[c][j].msg) = << cyc[c].articles[1].id >>
        /\ \A j \in 1..Len(cyc[c].todo) :
               MsgIds(cyc[c].todo[j]) = << cyc[c].articles[1].id >>
        /\ (cyc[c].pc = "done" /\ cyc[c].articles # << >>) =>
               IF cyc[c].lastId = << cyc[c].articles[1].id >>
               THEN sent[c] = << >>
               ELSE Len(sent[c]) = 1

\* A tick of the second revision has returned from a scrape with two records
\* newer than its cursor, having sent one message.
C12_Witness ==
    \E c \in Ticks :
        /\ rev = 2 /\ CursorAt(c, 3)
        /\ Len(sent[c]) = 1 /\ Len(cyc[c].saved) = 1

\* C13 as stated: the browsers open are those of the scrapes in progress.
C13_BrowsersClosed ==
    browsers = Cardinality({ c \in Cycles : cyc[c].pc = "scraping" })

\* C14 as stated: with a credential absent from the environment the process
\* has, once loaded, exited with status 1: no cycle was started, nothing was
\* sent, the cursor file is the one the run found and no tick was scheduled.
C14_MissingConfigFatal ==
    (main # "load" /\ (~env.token \/ ~env.chat)) =>
        /\ main = "exited" /\ exitStatus = << 1 >>
        /\ \A c \in Cycles : cyc[c] = IdleCycle /\ sent[c] = << >>
        /\ file \in InitFiles /\ fired = 0 /\ browsers = 0

\* C15: sendTodayBatch on n >= 1 records sends ceil(n/20) messages; the
\* record at page position p is entry ((p-1) mod 20) + 1 of message
\* ceil(p/20), numbered p; every entry of every message is such a record, so
\* no record is listed twice; a message holds at most 20 entries, all but the
\* last exactly 20, and its header names its first and last number.
C15_Chunking ==
    (res.kind = "batch" /\ Len(job.articles) >= 1) =>
        LET n    == Len(job.articles)
            msgs == res.plan.msgs
        IN  /\ Len(msgs) = (n + 19) \div 20
            /\ \A p \in 1..n :
                   msgs[((p - 1) \div 20) + 1].items[((p - 1) % 20) + 1] =
                       [n |-> p, id |-> job.articles[p].id]
            /\ \A m \in 1..Len(msgs) :
                   /\ Len(msgs[m].items) >= 1 /\ Len(msgs[m].items) <= 20
                   /\ m < Len(msgs) => Len(msgs[m].items) = 20
                   /\ msgs[m].first = 20 * (m - 1) + 1
                   /\ msgs[m].last = 20 * (m - 1) + Len(msgs[m].items)
                   /\ msgs[m].last <= n
                   /\ \A j \in 1..Len(msgs[m].items) :
                          msgs[m].items[j].n = 20 * (m - 1) + j

\* sendTodayBatch has run on 41 records: three messages, the last with one
\* entry, numbered 41.
C15_Witness ==
    /\ res.kind = "batch" /\ Len(job.articles) = 41
    /\ Len(res.plan.msgs) = 3
    /\ res.plan.msgs[3].items = << [n |-> 41, id |-> job.articles[41].id] >>

\* Item k of the extraction's page has a title that is not empty, an id and a
\* label holding the relative marker or today's label.
Qualifies(k) ==
    /\ job.items[k].bold # << >>
    /\ \E i \in 1..Len(job.items[k].bold[1]) : job.items[k].bold[1][i] # WS
    /\ job.items[k].link = << k >>
    /\ \/ \E i \in 1..Len(job.items[k].when) : job.items[k].when[i] = "ago"
       \/ \E i \in 0..Len(job.items[k].when) :
             /\ i + Len(job.today) <= Len(job.items[k].when)
             /\ \A h \in 1..Len(job.today) : job.items[k].when[i + h] = job.today[h]

\* C16: the extraction yields one record per qualifying item and no other,
\* in page order (the record of qualifying item k stands at the rank of k
\* among the qualifying items); every record has an id and a non-empty title;
\* a page with no qualifying item yields the empty sequence.
C16_Extractor ==
    res.kind = "extract" =>
        LET good == { k \in 1..Len(job.items) : Qualifies(k) } IN
        /\ Len(res.out) = Cardinality(good)
        /\ \A k \in good :
               res.out[Cardinality({ h \in good : h <= k })].id = k
        /\ \A j \in 1..Len(res.out) :
               /\ res.out[j].id # 0
               /\ res.out[j].title # << >> /\ res.out[j].title[1] # << >>

\* The extraction has run on two items on February 1st: the first, with no
\* article link, is dropped; the second, labelled December 1st (a label that
\* holds today's), is kept.
C16_Witness ==
    /\ res.kind = "extract" /\ Len(job.items) = 2 /\ job.today = Feb1
    /\ job.items[1].link = << >> /\ job.items[2].when = Dec1
    /\ Len(res.out) = 1 /\ res.out[1].id = 2

\* The recorded count before each count taken: 0, then the counts taken.
Recorded == << 0 >> \o res.obs
\* The counts taken since the last one that differed from the count recorded
\* before it.
Streak ==
    Cardinality({ j \in 1..Len(res.obs) :
                    \A h \in j..Len(res.obs) : Recorded[h + 1] = Recorded[h] })
C17_Safe ==
    res.kind = "scroll" =>
        /\ res.stable = Streak
        /\ res.stable <= 3
        /\ res.prev = Recorded[Len(Recorded)]
        /\ ~scrolling(res) <=> (Len(res.obs) >= 3 /\ Streak = 3)

\* C17: the streak of the loop is the number of counts taken since the last
\* one that differed from the recorded count (a differing count makes it 0);
\* the loop has stopped exactly when that number is 3; and once the page has
\* settled the loop stops.
C17_ScrollLoop ==
    /\ []C17_Safe
    /\ (job.settled # << >>) ~> ~scrolling(res)

\* The loop has stopped on a page of no items after three counts of 0, the
\* count recorded at the start.
C17_Witness ==
    /\ res.kind = "scroll" /\ ~scrolling(res)
    /\ res.obs = << 0, 0, 0 >>

\* Cycle c returns normally in this step, from a non-empty scrape.
Returns(c) ==
    /\ cyc[c].pc # "done" /\ cyc'[c].pc = "done"
    /\ cyc'[c].articles # << >>

\* C18: a cycle that returns normally from a non-empty scrape leaves the
\* cursor, as getLastId reads it, at the id of the first record of that
\* scrape, whether or not it sent a message; and the cursor file is changed
\* only by such a return, to that id, so it never holds the id of a record
\* that was not the first of its scrape.
C18_CursorInvariant ==
    [][ /\ \A c \in Cycles :
             Returns(c) => getLastId(file') = << cyc'[c].articles[1].id >>
        /\ file' # file =>
             \E c \in Cycles :
                 Returns(c) /\ file' = saveLastId(cyc'[c].articles[1].id) ]_vars

\* Startup has sent its batch and returned, and a later tick that scraped
\* two records has returned without sending anything; the cursor is the id of
\* the first record of the tick's scrape.
C18_Witness ==
    /\ cyc[0].pc = "done" /\ sent[0] # << >>
    /\ \E c \in Ticks :
           /\ cyc[c].pc = "done" /\ sent[c] = << >>
           /\ Len(cyc[c].articles) = 2
           /\ getLastId(file) = << cyc[c].articles[1].id >>

====
